---- MODULE Spec2Model ----
(***************************************************************************)
(* Model of the earthquake ingestion pipeline.                             *)
(*                                                                         *)
(* Two variants of the ingestion handler exist in the repository:         *)
(*   "main"  : src/main.py                  (_date_range_gen, all_features,*)
(*             one artifact per run, no try/except in the handler)         *)
(*   "fetch" : src/fetch-earthquake/main.py (dt_tuple_gen, fetch_save_all, *)
(*             one artifact per window, handler wrapped in try/except)     *)
(*                                                                         *)
(* Dates are day ordinals (datetime.date arithmetic with timedelta(days=)  *)
(* is integer arithmetic on ordinals).  A malformed ISO date string of the *)
(* event is BadDate.                                                       *)
(***************************************************************************)
EXTENDS Integers, Sequences, FiniteSets, TLC

VARIABLES
    variant,     \* which handler runs: "main" or "fetch"
    bucket,      \* whether the bucket name is given (event["bucket_name"] for
                 \* main, os.environ["BUCKET_NAME"] for fetch)
    start_date,  \* event["start_date"]: a day ordinal or BadDate
    end_date,    \* event["end_date"]:   a day ordinal or BadDate
    days,        \* span of one window in days
    rate_limit,  \* capacity of the semaphore of the run
    file_key,    \* event["file_key"]: "default" when the event has none
    prev,        \* the earlier invocation on the same dates, if there was one
    store,       \* the keys of the objects in the bucket
    raws,        \* the decoded "features" of one response body
    feats,       \* the records normalized from raws so far
    csv,         \* the serialized table: a sequence of rows of cells
    notice,      \* the storage notification a conversion handler receives
    output_bucket, \* the OUTPUT_BUCKET of the process environment
    engine,      \* where csv2pq stands, and the partitions still to copy
    hpc,         \* position of the handler (or of the splitter harness)
    gen,         \* what the splitter produced: [raised, wins]
    pc,          \* position of each fetch task
    outcome,     \* how each fetch task ended, "running" while it has not
    holding,     \* the fetch tasks inside the `async with` scope (slot held)
    sem,         \* asyncio.Semaphore._value: the free slots
    doneOrder,   \* the fetch tasks that returned normally, in completion order
    requests,    \* how many GET requests were issued for each window
    features,    \* what all_features returned to the handler
    uploads,     \* the keys written with put_object during the run
    result       \* what the invocation gave back to its caller

\* the inputs of an invocation, fixed once it started
recvars == <<raws, feats, csv>>

convvars == <<notice, output_bucket, engine>>

inputs == <<variant, bucket, start_date, end_date, days, rate_limit, file_key>>

vars == <<recvars, convvars, inputs, prev, store, hpc, gen, pc, outcome, holding, sem, doneOrder, requests,
          features, uploads, result>>

----------------------------------------------------------------------------
(* Bounds of the model *)

\* splitter harness: start in 0..MaxStart, end in 0..MaxDay, span in 1..MaxSpan
MaxStart == 2
MaxDay == 25
MaxSpan == 10

BadDate == -1

Variants == {"main", "fetch"}

----------------------------------------------------------------------------
(* The window splitters *)

\* math.floor((end_date - start_date) / delta), delta = timedelta(days=days)
FullSpans(s, e, d) == (e - s) \div d

\* full windows whose end is taken as the last day inside the window
FullWindowsInclusive(s, d, n) == [i \in 1..n |-> <<s + d * (i - 1), s + d * i - 1>>]

\* the windows yielded by the `for i in range(n)` loop of both splitters
FullWindows(s, d, n) == [i \in 1..n |-> <<s + d * (i - 1), s + d * i>>]

\* src/main.py with the trailing window not truncated to end_date
_date_range_gen_untruncated(s, e, d) ==
    LET n == FullSpans(s, e, d)
    IN  [raised |-> FALSE,
         wins   |-> Append(FullWindows(s, d, n), <<s + d * n, s + d * (n + 1)>>)]

\* src/main.py: the loop, then an unconditional trailing `yield`
_date_range_gen(s, e, d) ==
    LET n == FullSpans(s, e, d)
    IN  [raised |-> FALSE,
         wins   |-> Append(FullWindows(s, d, n), <<s + d * n, e>>)]

\* src/fetch-earthquake/main.py: `cdr` is bound only inside the loop, so
\* `if cdr < end_date` raises UnboundLocalError when the loop ran zero times
dt_tuple_gen(s, e, d) ==
    LET n    == FullSpans(s, e, d)
        full == FullWindows(s, d, n)
    IN  IF n <= 0
        THEN [raised |-> TRUE, wins |-> << >>]
        ELSE LET cdr == s + d * n
             IN  [raised |-> FALSE,
                  wins   |-> IF cdr < e THEN Append(full, <<cdr, e>>)
                                        ELSE full]

NoGen == [raised |-> FALSE, wins |-> << >>]

\* no notification: the invocation is not one of a conversion handler
NoNotice == [Records |-> << >>]

\* csv2pq has not been called
NoEngine == [step |-> "idle", seq_ymd |-> {}, key_in |-> "none", bucket_out |-> "none"]

\* no earlier invocation
NoPrev == [ran |-> FALSE, keys |-> {}, file_key |-> "default"]

NoResult == [kind |-> "none", statusCode |-> 0, body |-> "none", total_records |-> 0]

----------------------------------------------------------------------------
(* Harness applying the splitters to bounded inputs *)

SplitInit ==
    /\ variant \in Variants
    /\ bucket = TRUE
    /\ start_date \in 0..MaxStart
    /\ end_date \in 0..MaxDay
    /\ days \in 1..MaxSpan
    /\ rate_limit = 0
    /\ file_key = "default"
    /\ prev = NoPrev
    /\ store = {}
    /\ raws = << >>
    /\ feats = << >>
    /\ csv = << >>
    /\ notice = NoNotice
    /\ output_bucket = "unset"
    /\ engine = NoEngine
    /\ hpc = "split_call"
    /\ gen = NoGen
    /\ pc = << >>
    /\ outcome = << >>
    /\ holding = {}
    /\ sem = 0
    /\ doneOrder = << >>
    /\ requests = << >>
    /\ features = << >>
    /\ uploads = {}
    /\ result = NoResult

\* list(_date_range_gen(start, end, days))
CallDateRangeGen ==
    /\ hpc = "split_call"
    /\ variant = "main"
    /\ gen' = _date_range_gen(start_date, end_date, days)
    /\ hpc' = "split_done"
    /\ UNCHANGED <<recvars, convvars, inputs, prev, store, requests, pc,
                   outcome, holding, sem, doneOrder, features, uploads,
                   result>>

\* list(dt_tuple_gen(start, end, days))
CallDtTupleGen ==
    /\ hpc = "split_call"
    /\ variant = "fetch"
    /\ gen' = dt_tuple_gen(start_date, end_date, days)
    /\ hpc' = "split_done"
    /\ UNCHANGED <<recvars, convvars, inputs, prev, store, requests, pc,
                   outcome, holding, sem, doneOrder, features, uploads,
                   result>>

SplitNext == CallDateRangeGen \/ CallDtTupleGen

SplitSpec == SplitInit /\ [][SplitNext]_vars

----------------------------------------------------------------------------
(* One invocation of the ingestion handler *)

\* event dates of the invocation: multiples of half a span up to
\* MaxHalfSpans half spans, or a malformed string
MaxHalfSpans == 5

\* capacities of the limiter explored (all_features takes the capacity as
\* its rate_limit argument, fetch_save takes the semaphore as an argument;
\* the handlers pass RATE_LIMIT)
MaxRateLimit == 2

\* days of one window: all_features' default `days`, and N_DAY
DefaultDays == 10
N_DAY == 10

HalfSpan == N_DAY \div 2

\* event["file_key"] is read by src/main.py only: absent, or a key of the
\* caller's choice
FileKeys(v) == IF v = "main" THEN {"default", "custom"} ELSE {"default"}

EventDates == {BadDate} \cup {HalfSpan * i : i \in 0..MaxHalfSpans}

\* the upstream catalogue: the raw records the provider returns for the
\* window [a, b), in the provider's order; one event every half span
Upstream(w) ==
    [i \in 1..((w[2] - w[1] + HalfSpan - 1) \div HalfSpan) |->
        w[1] + (i - 1) * HalfSpan]

Tasks == 1..Len(gen.wins)

Running(t) == outcome[t] = "running"

\* failures of the request itself: transport error, non-success status,
\* undecodable body
FetchFailures == {"TransportError", "StatusError", "DecodeError"}

\* every way a fetch task raises
TaskFailures == FetchFailures \cup {"SchemaError", "DeliveryError"}

Failed(t) == outcome[t] \in TaskFailures

Init ==
    /\ variant \in Variants
    /\ bucket \in BOOLEAN
    /\ start_date \in EventDates
    /\ end_date \in EventDates
    /\ days = (IF variant = "main" THEN DefaultDays ELSE N_DAY)
    /\ rate_limit \in 1..MaxRateLimit
    /\ file_key \in FileKeys(variant)
    /\ prev = NoPrev
    /\ store = {}
    /\ raws = << >>
    /\ feats = << >>
    /\ csv = << >>
    /\ notice = NoNotice
    /\ output_bucket = "unset"
    /\ engine = NoEngine
    /\ hpc = "start"
    /\ gen = NoGen
    /\ pc = << >>
    /\ outcome = << >>
    /\ holding = {}
    /\ sem = 0
    /\ doneOrder = << >>
    /\ requests = << >>
    /\ features = << >>
    /\ uploads = {}
    /\ result = NoResult

\* an exception leaves the handler: the invocation fails without a result
Raised == [kind |-> "raised", statusCode |-> 0, body |-> "none", total_records |-> 0]

\* the handler returns {"statusCode": code, "body": ...}
Returned(code, body, n) ==
    [kind |-> "returned", statusCode |-> code, body |-> body, total_records |-> n]

\* asyncio.Semaphore(rate_limit), one coroutine per window, gather(*coroutines).
\* In the first pass of the event loop the tasks run in window order up to
\* their first suspension: the first rate_limit of them take a slot and issue
\* their request, the others queue on the semaphore
Launch(g) ==
    LET n     == Len(g.wins)
        first == {t \in 1..n : t <= rate_limit}
    IN  /\ gen' = g
        /\ pc' = [t \in 1..n |-> IF t \in first THEN "request" ELSE "waiting"]
        /\ outcome' = [t \in 1..n |-> "running"]
        /\ holding' = first
        /\ sem' = rate_limit - Cardinality(first)
        /\ requests' = [t \in 1..n |-> IF t \in first THEN 1 ELSE 0]
        /\ hpc' = "gather"
        /\ UNCHANGED <<doneOrder, features, uploads, result>>

\* src/main.py handler up to asyncio.run: date.fromisoformat raises
\* ValueError on a malformed date and nothing catches it
MainStart ==
    /\ hpc = "start"
    /\ variant = "main"
    /\ IF start_date = BadDate \/ end_date = BadDate
       THEN /\ result' = Raised
            /\ hpc' = "exit"
            /\ UNCHANGED <<gen, pc, outcome, holding, sem, doneOrder, requests, features,
                           uploads>>
       ELSE Launch(_date_range_gen(start_date, end_date, days))
    /\ UNCHANGED <<recvars, convvars, inputs, prev, store>>

\* src/fetch-earthquake/main.py handler up to asyncio.run: every exception
\* (KeyError of os.environ, ValueError of fromisoformat, UnboundLocalError
\* of dt_tuple_gen while the coroutine list is built) is caught and
\* returned as status 500
FetchStart ==
    /\ hpc = "start"
    /\ variant = "fetch"
    /\ IF \/ ~bucket
          \/ start_date = BadDate
          \/ end_date = BadDate
          \/ dt_tuple_gen(start_date, end_date, days).raised
       THEN /\ result' = Returned(500, "error", 0)
            /\ hpc' = "exit"
            /\ UNCHANGED <<gen, pc, outcome, holding, sem, doneOrder, requests, features,
                           uploads>>
       ELSE Launch(dt_tuple_gen(start_date, end_date, days))
    /\ UNCHANGED <<recvars, convvars, inputs, prev, store>>

----------------------------------------------------------------------------
(* The fetch tasks: fetch_features (main) and fetch_save (fetch) *)

\* a semaphore that never makes a task wait
LockedNever(v) == FALSE

\* Semaphore.locked(): no free slot
Locked(v) == v = 0

\* waiters of the semaphore are served first in, first out, and the tasks
\* reach `async with` in window order
NextWaiter(t) ==
    /\ pc[t] = "waiting"
    /\ \A u \in Tasks : (u < t /\ Running(u)) => pc[u] # "waiting"

\* leaving the block without giving the slot back
ExitScopeLeak(t) ==
    /\ holding' = holding \ {t}
    /\ sem' = sem

\* leaving the `async with` block, normally or by an exception: the
\* response and the session are closed and the slot is released
ExitScope(t) ==
    /\ holding' = holding \ {t}
    /\ sem' = sem + 1

\* `async with semaphore, ClientSession() as client, client.get(url)`:
\* take a slot and issue the request
Acquire(t) ==
    /\ hpc = "gather"
    /\ Running(t)
    /\ NextWaiter(t)
    /\ ~Locked(sem)
    /\ sem' = sem - 1
    /\ holding' = holding \cup {t}
    /\ pc' = [pc EXCEPT ![t] = "request"]
    /\ requests' = [requests EXCEPT ![t] = @ + 1]
    /\ UNCHANGED <<recvars, convvars, inputs, prev, store, hpc, gen,
                   outcome, doneOrder, features, uploads, result>>

\* a fetch that asks again after a failed request: the slot is released
\* and the task queues for a new attempt
RespondRetry(t) ==
    /\ hpc = "gather"
    /\ Running(t)
    /\ pc[t] = "request"
    /\ \/ /\ pc' = [pc EXCEPT ![t] = "decode"]
          /\ UNCHANGED <<holding, sem>>
       \/ /\ pc' = [pc EXCEPT ![t] = "waiting"]
          /\ ExitScope(t)
    /\ UNCHANGED <<recvars, convvars, inputs, prev, store, requests, hpc, gen, outcome,
                   doneOrder, features, uploads, result>>

\* a failed request that keeps its slot (acquire/release without a scope)
RespondHoldOnError(t) ==
    /\ hpc = "gather"
    /\ Running(t)
    /\ pc[t] = "request"
    /\ \/ /\ pc' = [pc EXCEPT ![t] = "decode"]
          /\ UNCHANGED outcome
       \/ /\ \E e \in {"TransportError", "StatusError"} :
                outcome' = [outcome EXCEPT ![t] = e]
          /\ UNCHANGED pc
    /\ UNCHANGED <<recvars, convvars, inputs, prev, store, requests, hpc, gen, holding, sem,
                   doneOrder, features, uploads, result>>

\* the response arrives: transport failure, non-success status
\* (raise_for_status), or success and the body is awaited
Respond(t) ==
    /\ hpc = "gather"
    /\ Running(t)
    /\ pc[t] = "request"
    /\ \/ /\ pc' = [pc EXCEPT ![t] = "decode"]
          /\ UNCHANGED <<outcome, holding, sem>>
       \/ /\ \E e \in {"TransportError", "StatusError"} :
                outcome' = [outcome EXCEPT ![t] = e]
          /\ ExitScope(t)
          /\ UNCHANGED pc
    /\ UNCHANGED <<recvars, convvars, inputs, prev, store, requests, hpc, gen,
                   doneOrder, features, uploads, result>>

\* the pacing sleep placed after the `async with` block: the slot is
\* released as soon as the body is decoded
DecodeUnpaced(t) ==
    /\ hpc = "gather"
    /\ Running(t)
    /\ pc[t] = "decode"
    /\ ExitScope(t)
    /\ \/ /\ pc' = [pc EXCEPT ![t] = "pacing"]
          /\ UNCHANGED outcome
       \/ /\ outcome' = [outcome EXCEPT ![t] = "DecodeError"]
          /\ UNCHANGED pc
    /\ UNCHANGED <<recvars, convvars, inputs, prev, store, requests, hpc, gen,
                   doneOrder, features, uploads, result>>

\* (await resp.json())["features"]: decoded, then the pacing sleep starts;
\* or the body is not the expected JSON
Decode(t) ==
    /\ hpc = "gather"
    /\ Running(t)
    /\ pc[t] = "decode"
    /\ \/ /\ pc' = [pc EXCEPT ![t] = "pacing"]
          /\ UNCHANGED <<outcome, holding, sem>>
       \/ /\ outcome' = [outcome EXCEPT ![t] = "DecodeError"]
          /\ ExitScope(t)
          /\ UNCHANGED pc
    /\ UNCHANGED <<recvars, convvars, inputs, prev, store, requests, hpc, gen,
                   doneOrder, features, uploads, result>>

\* fetch_features after asyncio.sleep(REQUEST_TIMEOUT): the slot is
\* released, the records are normalized and returned (or _parse_feature
\* raises on a malformed record)
FinishFeatures(t) ==
    /\ hpc = "gather"
    /\ variant = "main"
    /\ Running(t)
    /\ pc[t] = "pacing"
    /\ ExitScope(t)
    /\ pc' = [pc EXCEPT ![t] = "after"]
    /\ \/ /\ outcome' = [outcome EXCEPT ![t] = "ok"]
          /\ doneOrder' = Append(doneOrder, t)
       \/ /\ outcome' = [outcome EXCEPT ![t] = "SchemaError"]
          /\ UNCHANGED doneOrder
    /\ UNCHANGED <<recvars, convvars, inputs, prev, store, requests, hpc, gen,
                   features, uploads, result>>

\* a key made of the run's dates alone, the same for every window
WindowKeyOfRun(w) == <<"eq_raw", start_date, end_date>>

\* a key that also carries which invocation wrote it
WindowKeyStamped(w) == <<"eq_raw", start_date, end_date, w[1], w[2], prev.ran>>

\* the key fetch_save writes: f"{base_key}_{dt_beg_str}_{dt_end_str}.csv"
\* with base_key = f"eq_raw_{start_date}_{end_date}"
WindowKey(w) == <<"eq_raw", start_date, end_date, w[1], w[2]>>

\* fetch_save after asyncio.sleep(REQUEST_TIMEOUT): the slot is released,
\* the records are normalized, serialized and uploaded under the window's
\* key; _parse_feature or put_object may raise
FinishSave(t) ==
    /\ hpc = "gather"
    /\ variant = "fetch"
    /\ Running(t)
    /\ pc[t] = "pacing"
    /\ ExitScope(t)
    /\ pc' = [pc EXCEPT ![t] = "after"]
    /\ \/ /\ outcome' = [outcome EXCEPT ![t] = "ok"]
          /\ uploads' = uploads \cup {WindowKey(gen.wins[t])}
          /\ store' = store \cup {WindowKey(gen.wins[t])}
          /\ doneOrder' = Append(doneOrder, t)
       \/ /\ \E e \in {"SchemaError", "DeliveryError"} :
                outcome' = [outcome EXCEPT ![t] = e]
          /\ UNCHANGED <<uploads, store, doneOrder>>
    /\ UNCHANGED <<recvars, convvars, inputs, prev, requests, hpc, gen,
                   features, result>>

----------------------------------------------------------------------------
(* The join point and the end of the invocation *)

\* results collected as the tasks complete (as asyncio.as_completed would)
GatherResultsByCompletion ==
    [i \in 1..Len(doneOrder) |-> Upstream(gen.wins[doneOrder[i]])]

\* what gather returns: the tasks' results in the order of the coroutines
GatherResults == [t \in Tasks |-> Upstream(gen.wins[t])]

RECURSIVE Flatten(_)
\* [item for sublist in seq for item in sublist]
Flatten(seq) ==
    IF seq = << >> THEN << >> ELSE Head(seq) \o Flatten(Tail(seq))

\* a join that returns as soon as one task has returned
GatherReturnFirst ==
    /\ hpc = "gather"
    /\ \E t \in Tasks : outcome[t] = "ok"
    /\ \A t \in Tasks : ~Failed(t)
    /\ features' = (IF variant = "main" THEN Flatten(GatherResults) ELSE << >>)
    /\ hpc' = "joined"
    /\ UNCHANGED <<recvars, convvars, inputs, prev, store, requests, gen, pc,
                   outcome, holding, sem, doneOrder, uploads, result>>

\* every task returned: gather returns and the event loop is closed
GatherReturn ==
    /\ hpc = "gather"
    /\ \A t \in Tasks : outcome[t] = "ok"
    /\ features' = (IF variant = "main" THEN Flatten(GatherResults) ELSE << >>)
    /\ hpc' = "joined"
    /\ UNCHANGED <<recvars, convvars, inputs, prev, store, requests, gen, pc,
                   outcome, holding, sem, doneOrder, uploads, result>>

\* a task raised: gather raises in the awaiting coroutine at once, and
\* asyncio.run, closing the loop, cancels every task still pending
GatherRaise ==
    /\ hpc = "gather"
    /\ \E t \in Tasks : Failed(t)
    /\ hpc' = "teardown"
    /\ UNCHANGED <<recvars, convvars, inputs, prev, store, requests, gen, pc,
                   outcome, holding, sem, doneOrder, features, uploads,
                   result>>

\* a pending task receives CancelledError where it is suspended; inside the
\* `async with` block the slot is released on the way out
Cancel(t) ==
    /\ hpc = "teardown"
    /\ Running(t)
    /\ outcome' = [outcome EXCEPT ![t] = "cancelled"]
    /\ IF t \in holding THEN ExitScope(t) ELSE UNCHANGED <<holding, sem>>
    /\ UNCHANGED <<recvars, convvars, inputs, prev, store, requests, hpc, gen,
                   pc, doneOrder, features, uploads, result>>

\* asyncio.run re-raises the task's exception: main lets it escape, fetch
\* returns it as status 500
RunFailed ==
    /\ hpc = "teardown"
    /\ \A t \in Tasks : ~Running(t)
    /\ result' = (IF variant = "main" THEN Raised ELSE Returned(500, "error", 0))
    /\ hpc' = "exit"
    /\ UNCHANGED <<recvars, convvars, inputs, prev, store, requests, gen, pc,
                   outcome, holding, sem, doneOrder, features, uploads>>

\* the key of main's single artifact: event["file_key"] when given, else
\* earthquake_data_{dt_beg}_{dt_end}.csv
RunKey ==
    IF file_key = "default" THEN <<"earthquake_data", start_date, end_date>>
                            ELSE <<file_key>>

\* src/main.py handler after asyncio.run: convert_to_csv, upload_to_s3,
\* then status 200 with the record count; put_object raises when the
\* bucket name is None, and may raise otherwise
MainDeliver ==
    /\ hpc = "joined"
    /\ variant = "main"
    /\ \/ /\ bucket
          /\ uploads' = uploads \cup {RunKey}
          /\ store' = store \cup {RunKey}
          /\ result' = Returned(200, "message", Len(features))
       \/ /\ result' = Raised
          /\ UNCHANGED <<uploads, store>>
    /\ hpc' = "exit"
    /\ UNCHANGED <<recvars, convvars, inputs, prev, requests, gen, pc,
                   outcome, holding, sem, doneOrder, features>>

\* src/fetch-earthquake/main.py handler after asyncio.run: status 200
FetchReturn ==
    /\ hpc = "joined"
    /\ variant = "fetch"
    /\ result' = Returned(200, "message", 0)
    /\ hpc' = "exit"
    /\ UNCHANGED <<recvars, convvars, inputs, prev, store, requests, gen, pc,
                   outcome, holding, sem, doneOrder, features, uploads>>

Next ==
    \/ MainStart
    \/ FetchStart
    \/ \E t \in Tasks : Acquire(t)
    \/ \E t \in Tasks : Respond(t)
    \/ \E t \in Tasks : Decode(t)
    \/ \E t \in Tasks : FinishFeatures(t)
    \/ \E t \in Tasks : FinishSave(t)
    \/ GatherReturn
    \/ GatherRaise
    \/ \E t \in Tasks : Cancel(t)
    \/ RunFailed
    \/ MainDeliver
    \/ FetchReturn

Spec == Init /\ [][Next]_vars

\* the handler's sequential code runs on; the event loop runs every task
\* that is ready (a free slot, an expired sleep, a pending cancellation);
\* every request issued gets its response and its body
Fairness ==
    /\ WF_vars(MainStart \/ FetchStart \/ GatherReturn \/ GatherRaise
                  \/ RunFailed \/ MainDeliver \/ FetchReturn)
    /\ WF_vars(\E t \in Tasks : Acquire(t) \/ FinishFeatures(t)
                                   \/ FinishSave(t) \/ Cancel(t))
    /\ WF_vars(\E t \in Tasks : Respond(t) \/ Decode(t))

LiveSpec == Spec /\ Fairness

\* the handler is invoked once more after a successful run, with the same
\* start_date and end_date, against the same bucket; the caller is free to
\* give another file_key
Rerun ==
    /\ hpc = "exit"
    /\ result.kind = "returned"
    /\ result.statusCode = 200
    /\ ~prev.ran
    /\ prev' = [ran |-> TRUE, keys |-> uploads, file_key |-> file_key]
    /\ file_key' \in FileKeys(variant)
    /\ hpc' = "start"
    /\ gen' = NoGen
    /\ pc' = << >>
    /\ outcome' = << >>
    /\ holding' = {}
    /\ sem' = 0
    /\ doneOrder' = << >>
    /\ requests' = << >>
    /\ features' = << >>
    /\ uploads' = {}
    /\ result' = NoResult
    /\ UNCHANGED <<recvars, convvars, variant, bucket, start_date, end_date, days,
                   rate_limit, store>>

RerunNext == Next \/ Rerun

RerunSpec == Init /\ [][RerunNext]_vars

-----------------------------------------------------------------------------
(* The normalizer and the serializer, applied to bounded response bodies *)

MaxRecords == 2

\* Python values: None, numbers, text
None == [py |-> "None"]

Num(i) == [py |-> "int", v |-> i]

Str(t) == [py |-> "str", v |-> t]

\* Feature._fields, abridged to one field of each kind and kept in declared
\* order; src/main.py names the last text field magType, the fetch variant
\* mag_type
Feature_fields(v) ==
    <<"id", "mag", "place", "time", "felt", "alert",
      IF v = "main" THEN "magType" ELSE "mag_type",
      "longitude", "latitude", "depth">>

\* the key of dc["properties"] a field is read from
PropertyKey(f) == IF f = "mag_type" THEN "magType" ELSE f

\* the fields the specification calls optional
OptionalFields == {"felt", "alert"}

MsPerDay == 86400000

\* datetime.datetime.fromtimestamp(ms / 1e3, tz=datetime.UTC)
fromtimestamp(ms) ==
    [py          |-> "datetime",
     day         |-> ms \div MsPerDay,
     second      |-> (ms % MsPerDay) \div 1000,
     microsecond |-> (ms % 1000) * 1000]

\* a mapping without one of its keys
Without(dc, k) == [x \in (DOMAIN dc) \ {k} |-> dc[x]]

\* a well-formed upstream record
BaseRecord ==
    [id |-> Str("us1"),
     properties |-> [mag |-> Num(4), place |-> Str("Town"), time |-> Num(1500),
                     felt |-> Num(2), alert |-> Str("green"),
                     magType |-> Str("mb")],
     geometry |-> [coordinates |-> <<Num(7), Num(8), Num(9)>>]]

WithProperty(dc, k, x) == [dc EXCEPT !.properties[k] = x]

WithoutProperty(dc, k) == [dc EXCEPT !.properties = Without(@, k)]

WithCoordinates(dc, cs) == [dc EXCEPT !.geometry.coordinates = cs]

\* the upstream records of the model: felt null, absent or given, with a
\* coordinate list of 2, 3 or 4 elements, and one deviation at a time in the
\* other fields
RawRecords ==
    {WithCoordinates(r, cs) :
        r \in {BaseRecord, WithProperty(BaseRecord, "felt", None),
               WithoutProperty(BaseRecord, "felt")},
        cs \in {<<Num(7), Num(8)>>, <<Num(7), Num(8), Num(9)>>,
                <<Num(7), Num(8), Num(9), Num(0)>>}}
    \cup {WithProperty(BaseRecord, "alert", None),
          WithoutProperty(BaseRecord, "alert"),
          WithProperty(BaseRecord, "time", None),
          WithProperty(BaseRecord, "time", Num(MsPerDay)),
          WithoutProperty(BaseRecord, "mag"),
          WithProperty(BaseRecord, "mag", None),
          WithProperty(BaseRecord, "place", Str("Town, CA")),
          [BaseRecord EXCEPT !.id = Str("us2")],
          Without(BaseRecord, "id")}

\* one keyword argument of Feature(...): the value, or the exception its
\* expression raises
Argument(dc, f) ==
    LET value(x) == [raised |-> "none", value |-> x]
        raise(e) == [raised |-> e, value |-> None]
        props    == dc.properties
        coords   == dc.geometry.coordinates
        k        == PropertyKey(f)
        i        == CASE f = "longitude" -> 1
                      [] f = "latitude"  -> 2
                      [] OTHER           -> 3
    IN  CASE f = "id" ->
                IF "id" \in DOMAIN dc THEN value(dc.id) ELSE raise("KeyError")
          [] f \in {"longitude", "latitude", "depth"} ->
                IF i <= Len(coords) THEN value(coords[i]) ELSE raise("IndexError")
          [] f = "time" ->
                IF k \notin DOMAIN props THEN raise("KeyError")
                ELSE IF props[k] = None THEN raise("TypeError")
                ELSE value(fromtimestamp(props[k].v))
          [] OTHER ->
                IF k \in DOMAIN props THEN value(props[k]) ELSE raise("KeyError")

\* _parse_feature(dc): the arguments are evaluated in the order written,
\* which is the declared field order, and the first exception leaves the call
_parse_feature(v, dc) ==
    LET F    == Feature_fields(v)
        bad  == {j \in 1..Len(F) : Argument(dc, F[j]).raised # "none"}
        j0   == CHOOSE j \in bad : \A j2 \in bad : j <= j2
    IN  IF bad = {}
        THEN [raised |-> "none",
              feature |-> [f \in {F[j] : j \in 1..Len(F)} |-> Argument(dc, f).value]]
        ELSE [raised |-> Argument(dc, F[j0]).raised, feature |-> << >>]

\* the six digits of a microsecond part
Micro(n) ==
    LET d(p) == ToString((n \div p) % 10)
    IN  d(100000) \o d(10000) \o d(1000) \o d(100) \o d(10) \o d(1)

\* the text holding the delimiter, which csv.writer quotes
NeedsQuotes(t) == t \in {"Town, CA"}

\* a writer that formats every value with str()
CellStr(x) ==
    CASE x.py = "None" -> "None"
      [] x.py = "str"  -> x.v
      [] x.py = "int"  -> ToString(x.v)
      [] OTHER         -> "datetime"

\* csv.writer's field for a value: None is written as the empty string,
\* text as it is (quoted when it holds the delimiter), anything else as
\* str(value); str(datetime) drops a zero microsecond part (the date and the
\* time of day are written here as a day number and a second number)
Cell(x) ==
    CASE x.py = "None" -> ""
      [] x.py = "str"  -> IF NeedsQuotes(x.v) THEN "\"" \o x.v \o "\"" ELSE x.v
      [] x.py = "int"  -> ToString(x.v)
      [] OTHER         ->
            ToString(x.day) \o " " \o ToString(x.second)
                \o (IF x.microsecond = 0 THEN "" ELSE "." \o Micro(x.microsecond))
                \o "+00:00"

\* convert_to_csv / feat2csv: writerow(Feature._fields), then writerow(feature)
\* for each feature in turn
convert_to_csv(v, fs) ==
    LET F == Feature_fields(v)
    IN  <<F>> \o [i \in 1..Len(fs) |-> [j \in 1..Len(F) |-> Cell(fs[i][F[j]])]]

\* no ingestion run is under way
NoRun ==
    /\ bucket = TRUE
    /\ start_date = 0
    /\ end_date = 0
    /\ days = 1
    /\ rate_limit = 0
    /\ file_key = "default"
    /\ prev = NoPrev
    /\ store = {}
    /\ gen = NoGen
    /\ pc = << >>
    /\ outcome = << >>
    /\ holding = {}
    /\ sem = 0
    /\ doneOrder = << >>
    /\ requests = << >>
    /\ features = << >>
    /\ uploads = {}
    /\ result = NoResult

\* seq = (await resp.json())["features"]
RecordInit ==
    /\ variant \in Variants
    /\ raws \in UNION {[1..n -> RawRecords] : n \in 0..MaxRecords}
    /\ feats = << >>
    /\ csv = << >>
    /\ hpc = "parse"
    /\ notice = NoNotice
    /\ output_bucket = "unset"
    /\ engine = NoEngine
    /\ NoRun

\* one pass of [_parse_feature(dc) for dc in seq]
ParseFeature ==
    /\ hpc = "parse"
    /\ Len(feats) < Len(raws)
    /\ LET r == _parse_feature(variant, raws[Len(feats) + 1])
       IN  IF r.raised = "none"
           THEN /\ feats' = Append(feats, r.feature)
                /\ UNCHANGED <<hpc, result>>
           ELSE /\ hpc' = "parse_raised"
                /\ result' = [Raised EXCEPT !.body = r.raised]
                /\ UNCHANGED feats
    /\ UNCHANGED <<raws, csv, convvars, inputs, prev, store, gen, pc, outcome,
                   holding, sem, doneOrder, requests, features, uploads>>

\* csv_data = convert_to_csv(features), once every record is normalized
ConvertToCsv ==
    /\ hpc = "parse"
    /\ Len(feats) = Len(raws)
    /\ csv' = convert_to_csv(variant, feats)
    /\ hpc' = "serialized"
    /\ UNCHANGED <<raws, feats, convvars, inputs, prev, store, gen, pc, outcome,
                   holding, sem, doneOrder, requests, features, uploads, result>>

RecordNext == ParseFeature \/ ConvertToCsv

RecordSpec == RecordInit /\ [][RecordNext]_vars

-----------------------------------------------------------------------------
(* The conversion handlers: src/process-earthquake and src/read-earthquake *)

MaxNoticeRecords == 2

MaxPartitions == 2

ConvVariants == {"process", "read"}

\* the (year, month[, day]) combinations a table can hold
Partitions == 1..MaxPartitions

\* a well-formed entry of event["Records"]
BaseS3Record == [s3 |-> [bucket |-> [name |-> "in"], object |-> [key |-> "eq.csv"]]]

\* the entries of the model: well-formed, or short of s3, of the bucket name
\* or of the object key
S3Records ==
    {BaseS3Record,
     [BaseS3Record EXCEPT !.s3.object.key = "other.csv"],
     [BaseS3Record EXCEPT !.s3.bucket = Without(@, "name")],
     [BaseS3Record EXCEPT !.s3.object = Without(@, "key")],
     Without(BaseS3Record, "s3")}

\* the notifications of the model: without "Records", or with up to
\* MaxNoticeRecords entries
Notices ==
    {Without(NoNotice, "Records")}
        \cup {[Records |-> rs] :
                 rs \in UNION {[1..n -> S3Records] : n \in 0..MaxNoticeRecords}}

\* receive_s3_event(event): the bucket and the key of the first entry, or
\* the exception of the first subscript that fails
receive_s3_event(event) ==
    LET raise(e) == [raised |-> e, bucket |-> "none", key |-> "none"]
    IN  IF "Records" \notin DOMAIN event THEN raise("KeyError")
        ELSE IF Len(event.Records) = 0 THEN raise("IndexError")
        ELSE LET record == event.Records[1]
             IN  IF "s3" \notin DOMAIN record THEN raise("KeyError")
                 ELSE IF "name" \notin DOMAIN record.s3.bucket THEN raise("KeyError")
                 ELSE IF "key" \notin DOMAIN record.s3.object THEN raise("KeyError")
                 ELSE [raised |-> "none",
                       bucket |-> record.s3.bucket.name,
                       key    |-> record.s3.object.key]

\* the statements of csv2pq, in order: process-earthquake loads the table,
\* selects its days and copies them one by one; read-earthquake copies
\* straight from the file
Statements(v) ==
    IF v = "process"
    THEN <<"connect", "configure", "load_httpfs", "create_table", "select_days",
           "copy", "done">>
    ELSE <<"connect", "configure", "load_httpfs", "copy", "done">>

\* the statement after st
Following(v, st) ==
    LET S == Statements(v)
        i == CHOOSE j \in 1..Len(S) : S[j] = st
    IN  S[i + 1]

\* a key under which COPY ... PARTITION_BY writes the rows of partition d
PartitionKey(b, d) == <<"parquet", b, d>>

ConvInit ==
    /\ variant \in ConvVariants
    /\ notice \in Notices
    /\ output_bucket \in {"unset", "out"}
    /\ engine = NoEngine
    /\ hpc = "conv_start"
    /\ raws = << >>
    /\ feats = << >>
    /\ csv = << >>
    /\ NoRun

\* handler up to the try: receive_s3_event(event), then
\* bucket_out = os.environ.get("OUTPUT_BUCKET", bucket_in); both are outside
\* the try, so an exception of receive_s3_event leaves the handler
ReceiveS3Event ==
    /\ hpc = "conv_start"
    /\ LET r == receive_s3_event(notice)
       IN  IF r.raised # "none"
           THEN /\ hpc' = "exit"
                /\ result' = [Raised EXCEPT !.body = r.raised]
                /\ UNCHANGED engine
           ELSE /\ hpc' = "csv2pq"
                /\ engine' = [step       |-> "connect",
                              seq_ymd    |-> {},
                              key_in     |-> r.key,
                              bucket_out |-> IF output_bucket = "unset"
                                                THEN r.bucket ELSE output_bucket]
                /\ UNCHANGED result
    /\ UNCHANGED <<recvars, notice, output_bucket, inputs, prev, store, gen, pc,
                   outcome, holding, sem, doneOrder, requests, features, uploads>>

\* one statement of csv2pq before the COPY succeeds; the statement that
\* reads the table finds the partitions it holds
Execute ==
    /\ hpc = "csv2pq"
    /\ engine.step \notin {"copy", "done"}
    /\ LET st == Following(variant, engine.step)
       IN  IF st = "copy"
           THEN \E ps \in SUBSET Partitions :
                   engine' = [engine EXCEPT
                                 !.seq_ymd = ps,
                                 !.step = IF ps = {} /\ variant = "process"
                                             THEN "done" ELSE "copy"]
           ELSE engine' = [engine EXCEPT !.step = st]
    /\ UNCHANGED <<recvars, notice, output_bucket, inputs, prev, store, hpc, gen,
                   pc, outcome, holding, sem, doneOrder, requests, features,
                   uploads, result>>

\* a COPY succeeds: process-earthquake writes one partition per pass of its
\* loop, read-earthquake writes them all in one statement
Copy ==
    /\ hpc = "csv2pq"
    /\ engine.step = "copy"
    /\ \E ps \in SUBSET engine.seq_ymd :
          /\ IF variant = "process" THEN Cardinality(ps) = 1 ELSE ps = engine.seq_ymd
          /\ store' = store \cup {PartitionKey(engine.bucket_out, d) : d \in ps}
          /\ engine' = [engine EXCEPT
                           !.seq_ymd = @ \ ps,
                           !.step = IF engine.seq_ymd = ps THEN "done" ELSE "copy"]
    /\ UNCHANGED <<recvars, notice, output_bucket, inputs, prev, hpc, gen, pc,
                   outcome, holding, sem, doneOrder, requests, features, uploads,
                   result>>

\* a statement of csv2pq raises: the handler's except returns status 500
EngineError ==
    /\ hpc = "csv2pq"
    /\ engine.step # "done"
    /\ engine' = [engine EXCEPT !.step = "raised"]
    /\ result' = Returned(500, "Error processing file", 0)
    /\ hpc' = "exit"
    /\ UNCHANGED <<recvars, notice, output_bucket, inputs, prev, store, gen, pc,
                   outcome, holding, sem, doneOrder, requests, features, uploads>>

\* csv2pq returns: the handler returns status 200
ConvReturn ==
    /\ hpc = "csv2pq"
    /\ engine.step = "done"
    /\ result' = Returned(200, "Saved partitioned Parquet", 0)
    /\ hpc' = "exit"
    /\ UNCHANGED <<recvars, convvars, inputs, prev, store, gen, pc, outcome,
                   holding, sem, doneOrder, requests, features, uploads>>

ConvNext == ReceiveS3Event \/ Execute \/ Copy \/ EngineError \/ ConvReturn

ConvSpec == ConvInit /\ [][ConvNext]_vars

----------------------------------------------------------------------------
(* Properties of the splitters, checked under SplitSpec *)

Wins == gen.wins

\* the days of the half-open window w = <<a, b>>
DaysOf(w) == w[1]..(w[2] - 1)

\* the days covered by a sequence of windows
Covered(ws) == UNION {DaysOf(ws[i]) : i \in 1..Len(ws)}

\* each window's end is the next window's start
Contiguous(ws) == \A i \in 1..(Len(ws) - 1) : ws[i][2] = ws[i + 1][1]

\* no day lies in two windows
NonOverlapping(ws) ==
    \A i, j \in 1..Len(ws) : i # j => DaysOf(ws[i]) \cap DaysOf(ws[j]) = {}

\* the windows tile [s, e): contiguous, disjoint, union exactly [s, e)
Tiles(ws, s, e) ==
    /\ \A i \in 1..Len(ws) : ws[i][1] <= ws[i][2]
    /\ Contiguous(ws)
    /\ NonOverlapping(ws)
    /\ Covered(ws) = s..(e - 1)

SplitDone(v) == hpc = "split_done" /\ variant = v

\* C1: for start <= end and span >= 1 the windows of _date_range_gen, in
\* emission order, are contiguous, non-overlapping, begin at start, finish
\* at end, and their union is exactly [start, end).
C1_DateRangeGenTiles ==
    (SplitDone("main") /\ start_date <= end_date) =>
        /\ ~gen.raised
        /\ Len(Wins) >= 1
        /\ Wins[1][1] = start_date
        /\ Wins[Len(Wins)][2] = end_date
        /\ Tiles(Wins, start_date, end_date)

\* the spec's scenario shape: two full windows and a truncated third
C1_Witness ==
    /\ SplitDone("main")
    /\ start_date = 1 /\ end_date = 25 /\ days = 10
    /\ Wins = << <<1, 11>>, <<11, 21>>, <<21, 25>> >>

\* C2: for start < end and span >= 1, dt_tuple_gen completes without
\* raising and its windows tile [start, end); a range shorter than one span
\* gives the single window [start, end).
C2_DtTupleGenTotal ==
    (SplitDone("fetch") /\ start_date < end_date) =>
        /\ ~gen.raised
        /\ Tiles(Wins, start_date, end_date)
        /\ (end_date - start_date < days => Wins = << <<start_date, end_date>> >>)

\* C3: when start = end the splitter emits nothing and raises nothing.
C3_EmptyRangeEmitsNothing ==
    (hpc = "split_done" /\ start_date = end_date) =>
        (~gen.raised /\ Wins = << >>)

\* C4: when end - start is a positive multiple n*span the splitter emits
\* exactly n windows, and every emitted window [a, b) has a < b.
C4_ExactMultipleNoTrailing ==
    (hpc = "split_done" /\ start_date < end_date) =>
        /\ ((end_date > start_date /\ (end_date - start_date) % days = 0) =>
                (~gen.raised /\ Len(Wins) = (end_date - start_date) \div days))
        /\ \A i \in 1..Len(Wins) : Wins[i][1] < Wins[i][2]

----------------------------------------------------------------------------
(* Properties of one invocation, checked under Spec *)

\* the tasks in the acquired state: request in flight, decoding or pacing
Acquired == {t \in Tasks : Running(t) /\ pc[t] \in {"request", "decode", "pacing"}}

\* the run created its semaphore and its fetch tasks
Launched == hpc \in {"gather", "teardown", "joined", "exit"} /\ Tasks # {}

AllFinished == Launched /\ \A t \in Tasks : ~Running(t)

\* C5: under a limiter of capacity k, at most k fetch tasks are in the
\* acquired state (request in flight, decoding or pacing) in every reachable
\* state, also with more than k windows.
C5_ConcurrencyCap == Cardinality(Acquired) <= rate_limit

\* more windows than slots: every slot taken, one of them pacing, a task waiting
C5_Witness ==
    /\ Len(gen.wins) > rate_limit
    /\ Cardinality(Acquired) = rate_limit
    /\ \E t \in Acquired : pc[t] = "pacing"
    /\ \E t \in Tasks : Running(t) /\ pc[t] = "waiting"

\* C6: a fetch task that took a slot gives it back on every exit path
\* (success, non-success status, transport failure, decoding failure): a
\* task that ended holds no slot, and once every task of the run has ended
\* the free-slot count is the capacity again.
C6_SlotReleasedOnEveryExit ==
    /\ \A t \in Tasks : ~Running(t) => t \notin holding
    /\ AllFinished => sem = rate_limit

\* a run that ended with a success, a failed request and a task cancelled
\* inside the block
C6_Witness ==
    /\ AllFinished
    /\ sem = rate_limit
    /\ \E t \in Tasks : outcome[t] = "ok"
    /\ \E t \in Tasks : outcome[t] \in FetchFailures
    /\ \E t \in Tasks : outcome[t] = "cancelled" /\ pc[t] \in {"request", "decode", "pacing"}

\* the response of t was received and decoded
Decoded(t) == pc[t] \in {"pacing", "after"}

\* C7 as stated: a fetch whose request succeeded holds its slot from the
\* acquisition to the end of the full pacing delay; the slot is never
\* released between the response and the end of the pacing delay.
C7_PacingAlwaysCompleted ==
    \A t \in Tasks :
        /\ (Running(t) /\ pc[t] \in {"request", "decode", "pacing"}) => t \in holding
        /\ (Decoded(t) /\ t \notin holding) => pc[t] = "after"

\* C7 amended: the same order of events, except that a task cancelled by
\* the teardown of the run after another task failed releases its slot at
\* once, also in the middle of the pacing delay.
C7_PacingCompletedUnlessCancelled ==
    \A t \in Tasks :
        /\ (Running(t) /\ pc[t] \in {"request", "decode", "pacing"}) => t \in holding
        /\ (Decoded(t) /\ t \notin holding) =>
               \/ pc[t] = "after"
               \/ outcome[t] = "cancelled" /\ \E u \in Tasks : Failed(u)

\* one task paced in full and returned, another was cancelled while pacing
C7_Witness ==
    /\ \E t \in Tasks : outcome[t] = "ok" /\ pc[t] = "after" /\ t \notin holding
    /\ \E u \in Tasks : outcome[u] = "cancelled" /\ pc[u] = "pacing" /\ u \notin holding

RECURSIVE ConcatWindows(_)
\* the records of windows 1..n, all of window i before those of window i+1
ConcatWindows(n) ==
    IF n = 0 THEN << >> ELSE ConcatWindows(n - 1) \o Upstream(gen.wins[n])

\* C8: the list all_features returns is the concatenation of the windows'
\* record lists in window order, whatever the completion order of the tasks.
C8_FlattenInWindowOrder ==
    (variant = "main" /\ hpc \in {"joined", "exit"} /\ \A t \in Tasks : outcome[t] = "ok") =>
        features = ConcatWindows(Len(gen.wins))

\* three windows with records, the first window's task completed last
C8_Witness ==
    /\ variant = "main"
    /\ hpc = "joined"
    /\ Len(gen.wins) = 3
    /\ doneOrder = <<2, 3, 1>>
    /\ \A t \in Tasks : Upstream(gen.wins[t]) # << >>
    /\ features = ConcatWindows(3)

\* the invocation reported a failure to its caller
ReportedFailure ==
    \/ result.kind = "raised"
    \/ result.kind = "returned" /\ result.statusCode \notin 200..299

\* C9: if the fetch of one window fails, the run reports failure and no
\* artifact at all is written to object storage during that run.
C9_FailedRunWritesNothing ==
    (hpc = "exit" /\ \E t \in Tasks : outcome[t] \in FetchFailures) =>
        (ReportedFailure /\ uploads = {})

\* a failure happened during the invocation
SomeFailure ==
    \/ ~bucket
    \/ start_date = BadDate
    \/ end_date = BadDate
    \/ \E t \in Tasks : Failed(t)

\* C10: every failure of an ingestion invocation comes back as a result
\* with a non-2xx status and an error message; no failure escapes the
\* handler as an exception and none is followed by status 200.
C10_FailuresReturnedAsNon2xx ==
    hpc = "exit" =>
        /\ result.kind = "returned"
        /\ SomeFailure => (result.statusCode \notin 200..299 /\ result.body = "error")

\* the invocation ended with status 200
Succeeded == hpc = "exit" /\ result.kind = "returned" /\ result.statusCode = 200

\* C11: at most one request is issued per window in any run; a window
\* whose request failed is not requested again; a run that succeeds issued
\* exactly one request for each window of the splitter.
C11_OneRequestPerWindow ==
    /\ \A t \in Tasks : requests[t] <= 1
    /\ \A t \in Tasks : outcome[t] \in FetchFailures => requests[t] = 1
    /\ (Succeeded /\ Launched) =>
          (DOMAIN requests = 1..Len(gen.wins) /\ \A t \in Tasks : requests[t] = 1)

\* a run ended by a failed request: that window and a fetched one were
\* each requested once
C11_Witness ==
    /\ hpc = "exit"
    /\ \E t \in Tasks : outcome[t] \in {"StatusError", "TransportError"} /\ requests[t] = 1
    /\ \E t \in Tasks : outcome[t] = "ok" /\ requests[t] = 1

\* the await of gather in all_features / fetch_save_all has completed,
\* with the results or with an exception
JoinCompleted == Launched /\ hpc \in {"teardown", "joined", "exit"}

\* C12 as stated: the join point completes only after every launched fetch
\* task has finished, also when one fails, and a failure never cancels or
\* abandons a sibling task.
C12_JoinWaitsForAllTasks ==
    JoinCompleted => \A t \in Tasks : outcome[t] \notin {"running", "cancelled"}

\* C12 amended: without a failure the join point completes only after
\* every task returned; when a task fails the join point raises at once,
\* the siblings still pending are then cancelled by the teardown of the
\* run, and the handler continues only after every task has ended.
C12_JoinWaitsUnlessFailure ==
    /\ (JoinCompleted /\ \A t \in Tasks : ~Failed(t)) =>
           \A t \in Tasks : outcome[t] = "ok"
    /\ (Launched /\ hpc = "exit") => \A t \in Tasks : ~Running(t)
    /\ \A t \in Tasks : outcome[t] = "cancelled" =>
           (hpc \in {"teardown", "exit"} /\ \E u \in Tasks : Failed(u))

\* the join raised after a failure: one sibling is cancelled while waiting
\* for a slot, another is still pacing
C12_Witness ==
    /\ hpc = "teardown"
    /\ \E t \in Tasks : Failed(t)
    /\ \E t \in Tasks : outcome[t] = "cancelled" /\ pc[t] = "waiting"
    /\ \E t \in Tasks : Running(t) /\ pc[t] = "pacing"

\* C13 as stated: under fair scheduling, with every request answered,
\* every fetch task of a run acquires a slot and finishes.
C13_EveryTaskAcquiresASlot ==
    (Launched /\ hpc = "exit") =>
        \A t \in Tasks : requests[t] = 1 /\ outcome[t] # "cancelled"

\* C13 amended: under fair scheduling, with every request answered, the
\* run terminates with every fetch task ended (returned, failed, or
\* cancelled by the teardown after a sibling failed), so no task waits for
\* a slot forever; when no task failed, every task acquired a slot and
\* returned.
C13_RunTerminates ==
    <>(/\ hpc = "exit"
       /\ \A t \in Tasks : ~Running(t)
       /\ (\A t \in Tasks : ~Failed(t)) =>
              \A t \in Tasks : outcome[t] = "ok" /\ requests[t] = 1)

\* a run with more windows than slots that ended with every task returned
C13_Witness ==
    /\ Succeeded
    /\ Len(gen.wins) > rate_limit
    /\ \A t \in Tasks : outcome[t] = "ok" /\ requests[t] = 1

\* C20: the pacing delay is on the success path only: the step in which a
\* request fails (transport, status or decoding) releases the slot at once,
\* the task never enters the pacing delay, and a free slot is there for a
\* waiting task.
C20_FailureSkipsPacing ==
    [][\A t \in Tasks :
          (Running(t) /\ outcome'[t] \in FetchFailures) =>
              /\ pc[t] \in {"request", "decode"}
              /\ pc'[t] = pc[t]
              /\ t \in holding /\ t \notin holding'
              /\ sem' = sem + 1
              /\ ~Locked(sem')]_vars

\* with one slot: the first window's request failed and the second
\* window's request is already in flight before the run is torn down
C20_Witness ==
    /\ rate_limit = 1
    /\ hpc = "gather"
    /\ Len(gen.wins) >= 2
    /\ outcome[1] \in FetchFailures /\ pc[1] \in {"request", "decode"}
    /\ Running(2) /\ pc[2] = "request" /\ holding = {2}

\* C18: with n = floor((end - start) / span), the first n windows each have
\* length exactly span and cover [start, start + n*span); a window emitted
\* after them is the last one, ends at end and is strictly shorter than span.
C18_FullWindowsThenShortLast ==
    (hpc = "split_done" /\ start_date <= end_date) =>
        LET n == (end_date - start_date) \div days
        IN  /\ Len(Wins) >= (IF gen.raised THEN 0 ELSE n)
            /\ \A i \in 1..Len(Wins) :
                  /\ i <= n =>
                        Wins[i] = <<start_date + days * (i - 1), start_date + days * i>>
                  /\ i > n =>
                        /\ i = n + 1 /\ i = Len(Wins)
                        /\ Wins[i][1] = start_date + days * n
                        /\ Wins[i][2] = end_date
                        /\ Wins[i][2] - Wins[i][1] < days

\* dt_tuple_gen on 23 days with span 10: two full windows and a short last one
C18_Witness ==
    /\ SplitDone("fetch")
    /\ start_date = 2 /\ end_date = 25 /\ days = 10
    /\ Wins = << <<2, 12>>, <<12, 22>>, <<22, 25>> >>

SecondRunSucceeded == prev.ran /\ Succeeded

\* C17 (as stated): two successful runs with the same start_date and
\* end_date write exactly the same set of keys, so the second run only
\* overwrites and the number of stored objects does not grow.
C17_SameDatesSameKeys ==
    SecondRunSucceeded =>
        /\ uploads = prev.keys
        /\ Cardinality(store) = Cardinality(prev.keys)

\* C17 (amended): the keys written are a function of start_date, end_date
\* and, in src/main.py, of the event's optional file_key: two successful
\* runs that agree on all three write exactly the same set of keys, and the
\* stored objects are those of the first run, overwritten.
C17_SameDatesAndFileKeySameKeys ==
    (SecondRunSucceeded /\ file_key = prev.file_key) =>
        /\ uploads = prev.keys
        /\ store = prev.keys
        /\ uploads = IF variant = "main"
                        THEN {RunKey}
                        ELSE {WindowKey(gen.wins[t]) : t \in Tasks}

C17_Witness ==
    /\ SecondRunSucceeded
    /\ variant = "fetch"
    /\ Cardinality(prev.keys) = 3
    /\ uploads = prev.keys
    /\ store = prev.keys
\* the upstream record being normalized when the normalizer raised
Rejected == raws[Len(feats) + 1]

\* dc has the key k of its properties, with a value that is not null
Given(dc, k) == k \in DOMAIN dc.properties /\ dc.properties[k] # None

\* the required fields of dc are all present
RequiredPresent(dc) ==
    /\ "id" \in DOMAIN dc
    /\ \A k \in {"mag", "place", "time"} : Given(dc, k)
    /\ Len(dc.geometry.coordinates) = 3

\* C14: a raw record whose optional fields are missing upstream (null, or
\* the key not there at all) and whose required fields are all present is
\* normalized successfully, each such field being the absent marker.
C14_MissingOptionalNormalizes ==
    /\ hpc = "parse_raised" => ~RequiredPresent(Rejected)
    /\ \A i \in 1..Len(feats) : \A f \in OptionalFields :
          ~Given(raws[i], f) => feats[i][f] = None

\* C15: every raw record whose coordinate list does not have exactly 3
\* elements is rejected, so every record produced comes from a list of 3.
C15_CoordinatesExactlyThree ==
    \A i \in 1..Len(feats) : Len(raws[i].geometry.coordinates) = 3

\* C16: the table starts with the header, the field names in declared order,
\* followed by one row per record in the order received; an absent field is
\* written as the empty field.
C16_AbsentIsEmptyHeaderFirst ==
    hpc = "serialized" =>
        LET F == Feature_fields(variant)
        IN  /\ Len(csv) = Len(feats) + 1
            /\ csv[1] = F
            /\ F = <<"id", "mag", "place", "time", "felt", "alert",
                     IF variant = "main" THEN "magType" ELSE "mag_type",
                     "longitude", "latitude", "depth">>
            /\ \A i \in 1..Len(feats) :
                  /\ Len(csv[i + 1]) = Len(F)
                  /\ csv[i + 1][1] = feats[i].id.v
                  /\ \A j \in 1..Len(F) :
                        feats[i][F[j]] = None => csv[i + 1][j] = ""

C16_Witness ==
    /\ hpc = "serialized"
    /\ Len(feats) = 2
    /\ feats[1].id = Str("us1") /\ feats[1].felt = None
    /\ feats[2].id = Str("us2") /\ feats[2].felt = Num(2)
    /\ csv[2][5] = "" /\ csv[3][5] = "2"
    /\ csv[2][4] = "0 1.500000+00:00"
\* C19: every invocation of a conversion handler ends with a returned
\* result: status 200 only when the conversion completed, a non-2xx status
\* with an error message otherwise; nothing escapes as an exception.
C19_ConversionAlwaysReturns ==
    (variant \in ConvVariants /\ hpc = "exit") =>
        /\ result.kind = "returned"
        /\ result.statusCode = 200 <=> engine.step = "done"
        /\ engine.step # "done" =>
              /\ result.statusCode \notin 200..299
              /\ result.body = "Error processing file"
\* the tasks whose fetch_save ran to its end
Saved == {t \in Tasks : outcome[t] = "ok"}

\* C21: in the per-window delivery variant a window's artifact is uploaded
\* only once its own request was answered and decoded and its slot given
\* back; a window whose fetch failed (or that was cancelled) uploads
\* nothing; distinct windows of a run have distinct keys, so no artifact
\* overwrites another one of the same run.
C21_OwnFetchThenDistinctUpload ==
    (variant = "fetch" /\ Launched) =>
        /\ \A t \in Saved :
              /\ pc[t] = "after"
              /\ requests[t] = 1
              /\ t \notin holding
        /\ uploads = {WindowKey(gen.wins[t]) : t \in Saved}
        /\ Cardinality(uploads) = Cardinality(Saved)
        /\ \A t \in Tasks \ Saved : WindowKey(gen.wins[t]) \notin uploads
        /\ \A t1, t2 \in Tasks :
              t1 # t2 => WindowKey(gen.wins[t1]) # WindowKey(gen.wins[t2])

C21_Witness ==
    /\ variant = "fetch"
    /\ Len(gen.wins) = 3
    /\ outcome[1] = "ok" /\ outcome[2] = "ok"
    /\ outcome[3] \in FetchFailures
    /\ uploads = {WindowKey(gen.wins[1]), WindowKey(gen.wins[2])}
    /\ Cardinality(uploads) = 2
====
